---- MODULE Spec2Model ----
(***************************************************************************)
(* mavlink2rest: a MAVLink link is drained by an ingestion thread into one *)
(* process-wide JSON tree (MESSAGES, behind a Mutex); a heartbeat thread   *)
(* sends a keepalive; HTTP handlers clone the tree under the lock and      *)
(* answer from the clone.                                                  *)
(*                                                                         *)
(* JSON values (serde_json::Value) are tagged records:                     *)
(*   [t |-> "null"], [t |-> "num", n |-> i], [t |-> "rat", p |-> i, q |-> j]*)
(*   [t |-> "str", s |-> "x"], [t |-> "arr", a |-> <<...>>],               *)
(*   [t |-> "obj", o |-> [key |-> value]]                                  *)
(* A request path is the sequence of its maximal pieces: "/" separators    *)
(* and the runs of characters between them.                                *)
(***************************************************************************)
EXTENDS Integers, Sequences, FiniteSets, TLC

VARIABLES
    MESSAGES,              \* the JSON tree behind the Mutex
    lock,                  \* Mutex owner: "free", "ingest" or a handler id
    poisoned,              \* Mutex poisoned by a panic of its holder
    now,                   \* wall clock, in seconds
    ing_pc,                \* position of the ingestion thread
    ing_wake,              \* end of the ingestion thread's sleep
    value,                 \* ingestion local: serde_json::to_value(&msg)
    messages_information,  \* ingestion local: type name -> MessageInformation
    last_recv,             \* result of the latest vehicle.recv()
    idle_polls,            \* consecutive WouldBlock results so far
    nrecv,                 \* messages received so far
    hb_pc,                 \* position of the heartbeat thread
    hb_wake,               \* end of the heartbeat thread's sleep
    hb_last,               \* latest send_default of the heartbeat thread
    hb_prev,               \* the send_default before it
    h_pc,                  \* handler -> position
    url_path,              \* handler -> request path
    pretty,                \* handler -> the pretty query flag
    message,               \* handler -> its clone of MESSAGES
    response,              \* handler -> what it answered
    overtaken,             \* handler -> a put finished between its clone and its answer
    committed,             \* every entry a finished put has left in the store
    last_put,              \* type name -> the entry its latest finished put left
    arrivals               \* type name -> update() calls so far and the clock at the latest

vars == <<MESSAGES, lock, poisoned, now, ing_pc, ing_wake, value,
          messages_information, last_recv, idle_polls, nrecv,
          hb_pc, hb_wake, hb_last, hb_prev,
          h_pc, url_path, pretty, message, response, overtaken, committed, last_put, arrivals>>

ingest_vars == <<ing_pc, ing_wake, value, messages_information, last_recv,
                 idle_polls, nrecv, committed, last_put, arrivals>>
hb_vars == <<hb_pc, hb_wake, hb_last, hb_prev>>
handler_vars == <<h_pc, url_path, pretty, message, response, overtaken>>

----------------------------------------------------------------------------
(* Bounds *)

NumHandlers == 2
MaxRecv == 2
MaxTime == 2

Handlers == 1..NumHandlers

----------------------------------------------------------------------------
(* serde_json::Value *)

Null == [t |-> "null"]
Num(i) == [t |-> "num", n |-> i]
Str(x) == [t |-> "str", s |-> x]
Arr(x) == [t |-> "arr", a |-> x]
Obj(m) == [t |-> "obj", o |-> m]

EmptyMap == [k \in {} |-> Null]

GCD(a, b) ==
    CHOOSE d \in 1..(IF a > b THEN a ELSE b) :
        /\ a % d = 0
        /\ b % d = 0
        /\ \A e \in 1..(IF a > b THEN a ELSE b) :
               (a % e = 0 /\ b % e = 0) => e <= d

\* a float, kept exact as the reduced fraction p/q
Rat(p, q) ==
    IF p = 0 THEN [t |-> "rat", p |-> 0, q |-> 1]
    ELSE [t |-> "rat", p |-> p \div GCD(p, q), q |-> q \div GCD(p, q)]

\* Option::None
None == [t |-> "none"]

\* a panic of the running thread
Panic == [t |-> "panic"]

\* impl Index<&str> for Value: Null unless self is an object holding the key
Index(v, key) ==
    IF v.t = "obj" /\ key \in DOMAIN v.o THEN v.o[key] ELSE Null

\* impl IndexMut<&str> for Value, assigned through a chain of keys:
\* root[k1][k2]... = new. Null becomes an object, an object gets the key
\* inserted or overwritten, anything else panics.
RECURSIVE AssignAt(_, _, _)
AssignAt(v, keys, new) ==
    IF keys = <<>> THEN new
    ELSE IF v.t \notin {"null", "obj"} THEN Panic
    ELSE LET k == Head(keys)
             cur == IF v.t = "obj" /\ k \in DOMAIN v.o THEN v.o[k] ELSE Null
             inner == AssignAt(cur, Tail(keys), new)
         IN IF inner = Panic THEN Panic
            ELSE IF v.t = "null" THEN Obj(k :> inner)
            ELSE Obj((k :> inner) @@ v.o)

\* parse of an array index out of a path token (the digits the model uses)
ParseIndex(token) ==
    CASE token = "0" -> [ok |-> TRUE, i |-> 0]
      [] token = "1" -> [ok |-> TRUE, i |-> 1]
      [] token = "2" -> [ok |-> TRUE, i |-> 2]
      [] OTHER -> [ok |-> FALSE, i |-> 0]

\* mutant: an empty last token is dropped, so a trailing "/" is ignored
RECURSIVE SplitTokensTrim(_, _)
SplitTokensTrim(p, i) ==
    IF i >= Len(p) THEN <<>>
    ELSE IF p[i + 1] = "/" THEN <<"">> \o SplitTokensTrim(p, i + 1)
    ELSE <<p[i + 1]>> \o SplitTokensTrim(p, i + 2)

\* the tokens of a pointer that starts with "/": split('/').skip(1); the
\* piece after each separator, empty when another separator or the end follows
RECURSIVE SplitTokens(_, _)
SplitTokens(p, i) ==
    IF i > Len(p) THEN <<>>
    ELSE IF i = Len(p) \/ p[i + 1] = "/" THEN <<"">> \o SplitTokens(p, i + 1)
    ELSE <<p[i + 1]>> \o SplitTokens(p, i + 2)

\* mutant: a missing key or index yields Null, as the Index trait does
PointerStepIndexing(target, token) ==
    IF target = None THEN None
    ELSE IF target.t = "obj"
         THEN IF token \in DOMAIN target.o THEN target.o[token] ELSE Null
    ELSE IF target.t = "arr"
         THEN LET x == ParseIndex(token)
              IN IF x.ok /\ x.i < Len(target.a) THEN target.a[x.i + 1] ELSE Null
    ELSE Null

\* one step of the try_fold in Value::pointer
PointerStep(target, token) ==
    IF target = None THEN None
    ELSE IF target.t = "obj"
         THEN IF token \in DOMAIN target.o THEN target.o[token] ELSE None
    ELSE IF target.t = "arr"
         THEN LET x == ParseIndex(token)
              IN IF x.ok /\ x.i < Len(target.a) THEN target.a[x.i + 1] ELSE None
    ELSE None

RECURSIVE FoldTokens(_, _)
FoldTokens(target, tokens) ==
    IF tokens = <<>> THEN target
    ELSE FoldTokens(PointerStep(target, Head(tokens)), Tail(tokens))

\* serde_json::Value::pointer
pointer(v, p) ==
    IF p = <<>> THEN v
    ELSE IF Head(p) # "/" THEN None
    ELSE FoldTokens(v, SplitTokens(p, 1))

----------------------------------------------------------------------------
(* The messages the link delivers, as serde_json::to_value(&msg) gives them: *)
(* an object tagged with "type". The payload is opaque to the program.      *)

Payloads ==
    { Obj("type" :> Str("HEARTBEAT") @@ "custom_mode" :> Num(0)
          @@ "mavtype" :> Obj("type" :> Str("MAV_TYPE_QUADROTOR"))),
      Obj("type" :> Str("HEARTBEAT") @@ "system_status" :> Num(3)
          @@ "mavtype" :> Obj("type" :> Str("MAV_TYPE_GENERIC"))),
      Obj("type" :> Str("ATTITUDE") @@ "q" :> Arr(<<Num(1), Num(0)>>)) }

\* value["type"].to_string().replace("\"", "")
MsgType(v) ==
    LET ty == Index(v, "type")
    IN IF ty.t = "str" THEN ty.s ELSE "null"

TypeNames == {MsgType(v) : v \in Payloads}

----------------------------------------------------------------------------
(* message_information::MessageInformation *)

AlphaNum == 1
AlphaDen == 2

\* MessageInformation::default()
DefaultInformation ==
    [counter |-> 0, has_previous |-> FALSE, previous_timestamp |-> 0,
     frequency |-> Rat(0, 1)]

\* mutant: no smoothing, the estimate is the instant rate 1 / elapsed
BlendInstant(old, elapsed) == Rat(1, elapsed)

\* alpha * (1 / elapsed) + (1 - alpha) * old
Blend(old, elapsed) ==
    Rat(AlphaNum * old.q + (AlphaDen - AlphaNum) * old.p * elapsed,
        AlphaDen * elapsed * old.q)

\* MessageInformation::update at clock reading t
update(block, t) ==
    LET elapsed == t - block.previous_timestamp
    IN [counter |-> block.counter + 1,
        has_previous |-> TRUE,
        previous_timestamp |-> t,
        frequency |-> IF block.has_previous /\ elapsed > 0
                      THEN Blend(block.frequency, elapsed)
                      ELSE block.frequency]

\* serde_json::to_value(MessageInformation)
InformationValue(block) ==
    Obj("counter" :> Num(block.counter)
        @@ "frequency" :> block.frequency
        @@ "previous_timestamp" :>
               (IF block.has_previous THEN Num(block.previous_timestamp) ELSE Null))

----------------------------------------------------------------------------
(* The Mutex around MESSAGES *)

Free == [owner |-> "free", h |-> 0]
HeldByIngest == [owner |-> "ingest", h |-> 0]
HeldBy(h) == [owner |-> "handler", h |-> h]

----------------------------------------------------------------------------
(* Durations, in seconds *)

HeartbeatSleep == 1
BackoffSleep == 1

----------------------------------------------------------------------------
(* The request paths the model issues *)

Paths ==
    { <<"/">>,
      <<"/", "mavlink">>,
      <<"/", "mavlink", "/">>,
      <<"/", "mavlink", "/", "HEARTBEAT">>,
      <<"/", "mavlink", "/", "UNKNOWN">>,
      <<"/", "mavlink", "/", "HEARTBEAT", "/", "mavtype", "/", "type">>,
      <<"/", "mavlink", "/", "HEARTBEAT", "/", "custom_mode", "/", "x">>,
      <<"/", "mavlink", "/", "HEARTBEAT", "/", "message_information", "/", "counter">>,
      <<"/", "mavlink", "/", "ATTITUDE", "/", "q", "/", "1">>,
      <<"/", "mavlink", "/", "ATTITUDE", "/", "q", "/", "2">>,
      <<"/", "foo">> }

\* the route table: "/" is root_page, a path under /mavlink is mavlink_page,
\* anything else is left to the server's default (404)
Route(p) ==
    IF p = <<"/">> THEN "root_page"
    ELSE IF Len(p) >= 2 /\ p[1] = "/" /\ p[2] = "mavlink" THEN "mavlink_page"
    ELSE "default"

----------------------------------------------------------------------------
(* Responses *)

NoValidPath == [kind |-> "text", body |-> "No valid path"]
Json(v, indented) == [kind |-> "json", pretty |-> indented, value |-> v]
Html(list) == [kind |-> "html", list |-> list]
NotFound404 == [kind |-> "404"]
Panicked == [kind |-> "panic"]
NoResponse == [kind |-> "none"]

\* as_f64().unwrap_or(0.0) of a Value
AsF64(v) == IF v.t = "rat" THEN v ELSE IF v.t = "num" THEN Rat(v.n, 1) ELSE Rat(0, 1)

\* {:.2}: the frequency in hundredths, rounded to nearest, ties to even
Hundredths(r) ==
    LET n == 100 * r.p
        f == n \div r.q
        rem2 == 2 * (n % r.q)
    IN IF rem2 > r.q \/ (rem2 = r.q /\ f % 2 = 1) THEN f + 1 ELSE f

\* mutant: the frequency is looked up in the entry, not in its block
RootListNoBlock(msg) ==
    LET types == Index(msg, "mavlink")
    IN IF types.t # "obj" THEN {}
       ELSE { [key |-> k,
               hz |-> Hundredths(AsF64(Index(Index(types, k), "frequency")))] :
              k \in DOMAIN types.o }

\* message["mavlink"].as_object().unwrap() panics
RootUnwrapFails(msg) == Index(msg, "mavlink").t # "obj"

\* the list root_page builds from its clone: one item per key of "mavlink"
RootList(msg) ==
    LET types == Index(msg, "mavlink")
    IN IF types.t # "obj" THEN {}
       ELSE { [key |-> k,
               hz |-> Hundredths(AsF64(Index(Index(Index(types, k),
                          "message_information"), "frequency")))] :
              k \in DOMAIN types.o }

----------------------------------------------------------------------------
\* lazy_static MESSAGES and the locals of the threads as they start
Init ==
    /\ MESSAGES = Obj("mavlink" :> Obj(EmptyMap))
    /\ lock = Free
    /\ poisoned = FALSE
    /\ now = 0
    /\ ing_pc = "recv"
    /\ ing_wake = 0
    /\ value = Null
    /\ messages_information = EmptyMap
    /\ last_recv = "none"
    /\ idle_polls = 0
    /\ nrecv = 0
    /\ hb_pc = "send"
    /\ hb_wake = 0
    /\ hb_last = [sent |-> FALSE, at |-> 0, ok |-> TRUE]
    /\ hb_prev = [sent |-> FALSE, at |-> 0, ok |-> TRUE]
    /\ h_pc = [h \in Handlers |-> "idle"]
    /\ url_path = [h \in Handlers |-> <<>>]
    /\ pretty = [h \in Handlers |-> FALSE]
    /\ message = [h \in Handlers |-> Null]
    /\ response = [h \in Handlers |-> NoResponse]
    /\ overtaken = [h \in Handlers |-> FALSE]
    /\ committed = {}
    /\ last_put = EmptyMap
    /\ arrivals = EmptyMap

\* the clock advances
Tick ==
    /\ now < MaxTime
    /\ now' = now + 1
    /\ UNCHANGED <<MESSAGES, lock, poisoned, ingest_vars, hb_vars, handler_vars>>

----------------------------------------------------------------------------
(* The heartbeat thread *)

\* mutant: a failed send ends the heartbeat loop
HeartbeatSendFatal(ok) ==
    /\ hb_pc = "send"
    /\ hb_prev' = hb_last
    /\ hb_last' = [sent |-> TRUE, at |-> now, ok |-> ok]
    /\ IF ok
       THEN /\ hb_pc' = "sleep"
            /\ hb_wake' = now + HeartbeatSleep
       ELSE /\ hb_pc' = "stopped"
            /\ UNCHANGED hb_wake
    /\ UNCHANGED <<MESSAGES, lock, poisoned, now, ingest_vars, handler_vars>>

\* vehicle.send_default(&heartbeat_message()) and the branch on its result
HeartbeatSend(ok) ==
    /\ hb_pc = "send"
    /\ hb_prev' = hb_last
    /\ hb_last' = [sent |-> TRUE, at |-> now, ok |-> ok]
    /\ IF ok
       THEN /\ hb_pc' = "sleep"
            /\ hb_wake' = now + HeartbeatSleep
       ELSE /\ hb_pc' = "send"
            /\ UNCHANGED hb_wake
    /\ UNCHANGED <<MESSAGES, lock, poisoned, now, ingest_vars, handler_vars>>

\* thread::sleep(Duration::from_secs(1)) returns
HeartbeatWake ==
    /\ hb_pc = "sleep"
    /\ now >= hb_wake
    /\ hb_pc' = "send"
    /\ hb_wake' = 0
    /\ UNCHANGED <<hb_last, hb_prev>>
    /\ UNCHANGED <<MESSAGES, lock, poisoned, now, ingest_vars, handler_vars>>

----------------------------------------------------------------------------
(* The ingestion thread *)

\* msgs["mavlink"][T], read
EntryOfStore(T) == Index(Index(MESSAGES, "mavlink"), T)

\* vehicle.recv() returns Ok((_header, msg)); value = to_value(&msg)
RecvOk(msg) ==
    /\ ing_pc = "recv"
    /\ nrecv < MaxRecv
    /\ value' = msg
    /\ nrecv' = nrecv + 1
    /\ last_recv' = "ok"
    /\ ing_pc' = "lock"
    /\ UNCHANGED <<ing_wake, messages_information, idle_polls, committed, last_put, arrivals>>
    /\ UNCHANGED <<MESSAGES, lock, poisoned, now, hb_vars, handler_vars>>

\* mutant: WouldBlock ends the loop like any other Err
RecvWouldBlockBreaks ==
    /\ ing_pc = "recv"
    /\ last_recv' = "wouldblock"
    /\ idle_polls' = IF last_recv = "wouldblock" THEN idle_polls + 1 ELSE 1
    /\ ing_pc' = "stopped"
    /\ UNCHANGED <<ing_wake, value, messages_information, nrecv, committed, last_put, arrivals>>
    /\ UNCHANGED <<MESSAGES, lock, poisoned, now, hb_vars, handler_vars>>

\* vehicle.recv() returns Err of kind WouldBlock: sleep, then continue
RecvWouldBlock ==
    /\ ing_pc = "recv"
    /\ last_recv' = "wouldblock"
    /\ idle_polls' = IF last_recv = "wouldblock" THEN idle_polls + 1 ELSE 1
    /\ ing_wake' = now + BackoffSleep
    /\ ing_pc' = "sleep"
    /\ UNCHANGED <<value, messages_information, nrecv, committed, last_put, arrivals>>
    /\ UNCHANGED <<MESSAGES, lock, poisoned, now, hb_vars, handler_vars>>

\* the backoff sleep returns
IngestWake ==
    /\ ing_pc = "sleep"
    /\ now >= ing_wake
    /\ ing_pc' = "recv"
    /\ ing_wake' = 0
    /\ UNCHANGED <<value, messages_information, last_recv, idle_polls,
                   nrecv, committed, last_put, arrivals>>
    /\ UNCHANGED <<MESSAGES, lock, poisoned, now, hb_vars, handler_vars>>

\* mutant: any other Err is retried like WouldBlock
RecvErrorContinue ==
    /\ ing_pc = "recv"
    /\ last_recv' = "error"
    /\ ing_wake' = now + BackoffSleep
    /\ ing_pc' = "sleep"
    /\ UNCHANGED <<value, messages_information, idle_polls, nrecv, committed, last_put, arrivals>>
    /\ UNCHANGED <<MESSAGES, lock, poisoned, now, hb_vars, handler_vars>>

\* vehicle.recv() returns any other Err: break
RecvError ==
    /\ ing_pc = "recv"
    /\ last_recv' = "error"
    /\ ing_pc' = "stopped"
    /\ UNCHANGED <<ing_wake, value, messages_information, idle_polls, nrecv,
                   committed, last_put, arrivals>>
    /\ UNCHANGED <<MESSAGES, lock, poisoned, now, hb_vars, handler_vars>>

\* let mut msgs = messages_ref.lock().unwrap()
IngestLock ==
    /\ ing_pc = "lock"
    /\ lock = Free
    /\ IF poisoned
       THEN /\ ing_pc' = "panicked"
            /\ UNCHANGED lock
       ELSE /\ ing_pc' = "assign"
            /\ lock' = HeldByIngest
    /\ UNCHANGED <<ing_wake, value, messages_information, last_recv, idle_polls,
                   nrecv, committed, last_put, arrivals>>
    /\ UNCHANGED <<MESSAGES, poisoned, now, hb_vars, handler_vars>>

\* mutant: the payload is assigned into a copy of the tree, not the tree
IngestAssignOnCopy ==
    /\ ing_pc = "assign"
    /\ ing_pc' = "update"
    /\ UNCHANGED <<MESSAGES, lock, poisoned>>
    /\ UNCHANGED <<ing_wake, value, messages_information, last_recv, idle_polls,
                   nrecv, committed, last_put, arrivals>>
    /\ UNCHANGED <<now, hb_vars, handler_vars>>

\* mutant: the new payload is merged into the stored entry
IngestAssignMerge ==
    /\ ing_pc = "assign"
    /\ LET msg_type == MsgType(value)
           old == EntryOfStore(msg_type)
           merged == IF old.t = "obj" THEN Obj(value.o @@ old.o) ELSE value
       IN MESSAGES' = AssignAt(MESSAGES, <<"mavlink", msg_type>>, merged)
    /\ ing_pc' = "update"
    /\ UNCHANGED <<lock, poisoned>>
    /\ UNCHANGED <<ing_wake, value, messages_information, last_recv, idle_polls,
                   nrecv, committed, last_put, arrivals>>
    /\ UNCHANGED <<now, hb_vars, handler_vars>>

\* mutant: the assignment replaces the whole mapping under "mavlink"
IngestAssignReplaceAll ==
    /\ ing_pc = "assign"
    /\ MESSAGES' = AssignAt(MESSAGES, <<"mavlink">>, Obj(MsgType(value) :> value))
    /\ ing_pc' = "update"
    /\ UNCHANGED <<lock, poisoned>>
    /\ UNCHANGED <<ing_wake, value, messages_information, last_recv, idle_polls,
                   nrecv, committed, last_put, arrivals>>
    /\ UNCHANGED <<now, hb_vars, handler_vars>>

\* mutant: the guard is a temporary of the payload assignment and is dropped
\* with it, before the block is written
IngestAssignUnlocks ==
    /\ ing_pc = "assign"
    /\ MESSAGES' = AssignAt(MESSAGES, <<"mavlink", MsgType(value)>>, value)
    /\ ing_pc' = "update"
    /\ lock' = Free
    /\ UNCHANGED poisoned
    /\ UNCHANGED <<ing_wake, value, messages_information, last_recv, idle_polls,
                   nrecv, committed, last_put, arrivals>>
    /\ UNCHANGED <<now, hb_vars, handler_vars>>

\* msgs["mavlink"][&msg_type] = value
IngestAssign ==
    /\ ing_pc = "assign"
    /\ LET msg_type == MsgType(value)
           new == AssignAt(MESSAGES, <<"mavlink", msg_type>>, value)
       IN IF new = Panic
          THEN /\ ing_pc' = "panicked"
               /\ poisoned' = TRUE
               /\ lock' = Free
               /\ UNCHANGED MESSAGES
          ELSE /\ ing_pc' = "update"
               /\ MESSAGES' = new
               /\ UNCHANGED <<lock, poisoned>>
    /\ UNCHANGED <<ing_wake, value, messages_information, last_recv, idle_polls,
                   nrecv, committed, last_put, arrivals>>
    /\ UNCHANGED <<now, hb_vars, handler_vars>>

\* the record of arrivals after one more update() call for type T
Arrived(T) ==
    (T :> [n |-> (IF T \in DOMAIN arrivals THEN arrivals[T].n ELSE 0) + 1,
           at |-> now]) @@ arrivals

\* mutant: the block is created anew for every message (insert, not or_insert)
IngestUpdateFresh ==
    /\ ing_pc = "update"
    /\ LET msg_type == MsgType(value)
       IN messages_information' =
              (msg_type :> update(DefaultInformation, now)) @@ messages_information
    /\ arrivals' = Arrived(MsgType(value))
    /\ ing_pc' = "mirror"
    /\ UNCHANGED <<ing_wake, value, last_recv, idle_polls, nrecv, committed, last_put>>
    /\ UNCHANGED <<MESSAGES, lock, poisoned, now, hb_vars, handler_vars>>

\* mutant: update() runs for every block of the side table
IngestUpdateAll ==
    /\ ing_pc = "update"
    /\ LET msg_type == MsgType(value)
       IN messages_information' =
              [T \in DOMAIN messages_information \cup {msg_type} |->
                  update(IF T \in DOMAIN messages_information
                         THEN messages_information[T]
                         ELSE DefaultInformation, now)]
    /\ arrivals' = Arrived(MsgType(value))
    /\ ing_pc' = "mirror"
    /\ UNCHANGED <<ing_wake, value, last_recv, idle_polls, nrecv, committed, last_put>>
    /\ UNCHANGED <<MESSAGES, lock, poisoned, now, hb_vars, handler_vars>>

\* messages_information.entry(msg_type).or_insert(default()).update()
IngestUpdate ==
    /\ ing_pc = "update"
    /\ LET msg_type == MsgType(value)
           message_information ==
               IF msg_type \in DOMAIN messages_information
               THEN messages_information[msg_type]
               ELSE DefaultInformation
       IN messages_information' =
              (msg_type :> update(message_information, now)) @@ messages_information
    /\ arrivals' = Arrived(MsgType(value))
    /\ ing_pc' = "mirror"
    /\ UNCHANGED <<ing_wake, value, last_recv, idle_polls, nrecv, committed, last_put>>
    /\ UNCHANGED <<MESSAGES, lock, poisoned, now, hb_vars, handler_vars>>

\* mutant: the block is written under "mavlink", beside the entry, not into it
IngestMirrorMisplaced ==
    /\ ing_pc = "mirror"
    /\ LET msg_type == MsgType(value)
           info == InformationValue(messages_information[msg_type])
           new == AssignAt(MESSAGES, <<"mavlink", "message_information">>, info)
           put == [type |-> msg_type,
                   entry |-> Obj(("message_information" :> info) @@ value.o)]
       IN /\ ing_pc' = "recv"
          /\ MESSAGES' = new
          /\ committed' = committed \cup {put}
          /\ last_put' = (msg_type :> put.entry) @@ last_put
          /\ UNCHANGED poisoned
    /\ lock' = Free
    /\ UNCHANGED <<ing_wake, value, messages_information, last_recv, idle_polls,
                   nrecv, arrivals>>
    /\ UNCHANGED <<now, hb_vars, handler_vars>>

\* mutant: the guard is never dropped (the Mutex stays with the ingestion thread)
IngestMirrorKeepsLock ==
    /\ ing_pc = "mirror"
    /\ LET msg_type == MsgType(value)
           info == InformationValue(messages_information[msg_type])
           new == AssignAt(MESSAGES, <<"mavlink", msg_type, "message_information">>, info)
           put == [type |-> msg_type,
                   entry |-> Obj(("message_information" :> info) @@ value.o)]
       IN /\ ing_pc' = "recv"
          /\ MESSAGES' = new
          /\ committed' = committed \cup {put}
          /\ last_put' = (msg_type :> put.entry) @@ last_put
    /\ UNCHANGED <<lock, poisoned>>
    /\ UNCHANGED <<ing_wake, value, messages_information, last_recv, idle_polls,
                   nrecv, arrivals>>
    /\ UNCHANGED <<now, hb_vars, handler_vars>>

\* msgs["mavlink"][&msg_type]["message_information"] = to_value(...); the
\* guard msgs is dropped at the end of the match arm
IngestMirror ==
    /\ ing_pc = "mirror"
    /\ LET msg_type == MsgType(value)
           info == InformationValue(messages_information[msg_type])
           new == AssignAt(MESSAGES, <<"mavlink", msg_type, "message_information">>, info)
           put == [type |-> msg_type,
                   entry |-> Obj(("message_information" :> info) @@ value.o)]
       IN IF new = Panic
          THEN /\ ing_pc' = "panicked"
               /\ poisoned' = TRUE
               /\ UNCHANGED <<MESSAGES, committed, last_put>>
          ELSE /\ ing_pc' = "recv"
               /\ MESSAGES' = new
               /\ committed' = committed \cup {put}
               /\ last_put' = (msg_type :> put.entry) @@ last_put
               /\ UNCHANGED poisoned
    /\ lock' = Free
    /\ UNCHANGED <<ing_wake, value, messages_information, last_recv, idle_polls,
                   nrecv, arrivals>>
    /\ UNCHANGED <<now, hb_vars, handler_vars>>

----------------------------------------------------------------------------
(* The HTTP handlers; each handler id serves one request *)

\* the entry of type T in a tree
EntryOf(tree, T) == Index(Index(tree, "mavlink"), T)

\* some finished put is not what the clone msg shows for its type
Overtaken(msg) == \E T \in DOMAIN last_put : EntryOf(msg, T) # last_put[T]

\* a request for "/" or for a path under /mavlink reaches its handler, which
\* parses the query string and waits for the Mutex
Request(h, p, indented) ==
    /\ h_pc[h] = "idle"
    /\ Route(p) # "default"
    /\ url_path' = [url_path EXCEPT ![h] = p]
    /\ pretty' = [pretty EXCEPT ![h] = indented]
    /\ h_pc' = [h_pc EXCEPT ![h] = "lock"]
    /\ UNCHANGED <<message, response, overtaken>>
    /\ UNCHANGED <<MESSAGES, lock, poisoned, now, ingest_vars, hb_vars>>

\* a request no route matches is answered by the server itself
DefaultService(h, p, indented) ==
    /\ h_pc[h] = "idle"
    /\ Route(p) = "default"
    /\ url_path' = [url_path EXCEPT ![h] = p]
    /\ pretty' = [pretty EXCEPT ![h] = indented]
    /\ response' = [response EXCEPT ![h] = NotFound404]
    /\ h_pc' = [h_pc EXCEPT ![h] = "done"]
    /\ UNCHANGED <<message, overtaken>>
    /\ UNCHANGED <<MESSAGES, lock, poisoned, now, ingest_vars, hb_vars>>

\* messages_ref.lock().unwrap()
HandlerLock(h) ==
    /\ h_pc[h] = "lock"
    /\ lock = Free
    /\ IF poisoned
       THEN /\ h_pc' = [h_pc EXCEPT ![h] = "done"]
            /\ response' = [response EXCEPT ![h] = Panicked]
            /\ UNCHANGED lock
       ELSE /\ h_pc' = [h_pc EXCEPT ![h] = "clone"]
            /\ lock' = HeldBy(h)
            /\ UNCHANGED response
    /\ UNCHANGED <<url_path, pretty, message, overtaken>>
    /\ UNCHANGED <<MESSAGES, poisoned, now, ingest_vars, hb_vars>>

\* mutant: the clone is taken without the Mutex
HandlerCloneUnlocked(h) ==
    /\ h_pc[h] \in {"lock", "clone"}
    /\ message' = [message EXCEPT ![h] = MESSAGES]
    /\ lock' = IF lock = HeldBy(h) THEN Free ELSE lock
    /\ h_pc' = [h_pc EXCEPT ![h] = "cloned"]
    /\ UNCHANGED <<url_path, pretty, response, overtaken>>
    /\ UNCHANGED <<MESSAGES, poisoned, now, ingest_vars, hb_vars>>

\* mutant: the tree is moved out of the Mutex (std::mem::take), not cloned
HandlerCloneTake(h) ==
    /\ h_pc[h] = "clone"
    /\ lock = HeldBy(h)
    /\ message' = [message EXCEPT ![h] = MESSAGES]
    /\ MESSAGES' = Null
    /\ lock' = Free
    /\ h_pc' = [h_pc EXCEPT ![h] = "cloned"]
    /\ UNCHANGED <<url_path, pretty, response, overtaken>>
    /\ UNCHANGED <<poisoned, now, ingest_vars, hb_vars>>

\* mutant: the guard is bound to a local and outlives the clone
HandlerCloneKeepsGuard(h) ==
    /\ h_pc[h] = "clone"
    /\ lock = HeldBy(h)
    /\ message' = [message EXCEPT ![h] = MESSAGES]
    /\ h_pc' = [h_pc EXCEPT ![h] = "cloned"]
    /\ UNCHANGED <<url_path, pretty, response, overtaken>>
    /\ UNCHANGED <<MESSAGES, lock, poisoned, now, ingest_vars, hb_vars>>

\* .clone(); the temporary guard is dropped at the end of the statement
HandlerClone(h) ==
    /\ h_pc[h] = "clone"
    /\ lock = HeldBy(h)
    /\ message' = [message EXCEPT ![h] = MESSAGES]
    /\ lock' = Free
    /\ h_pc' = [h_pc EXCEPT ![h] = "cloned"]
    /\ UNCHANGED <<url_path, pretty, response, overtaken>>
    /\ UNCHANGED <<MESSAGES, poisoned, now, ingest_vars, hb_vars>>

\* root_page, after its clone: the HTML list of types and frequencies
root_page(h) ==
    /\ h_pc[h] = "cloned"
    /\ Route(url_path[h]) = "root_page"
    /\ response' = [response EXCEPT
           ![h] = IF RootUnwrapFails(message[h]) THEN Panicked
                  ELSE Html(RootList(message[h]))]
    /\ overtaken' = [overtaken EXCEPT ![h] = Overtaken(message[h])]
    /\ message' = [message EXCEPT ![h] = Null]
    /\ h_pc' = [h_pc EXCEPT ![h] = "done"]
    /\ UNCHANGED <<url_path, pretty>>
    /\ UNCHANGED <<MESSAGES, lock, poisoned, now, ingest_vars, hb_vars>>

\* mutant: the path is resolved against the store, not against the clone
mavlink_page_live(h) ==
    /\ h_pc[h] = "cloned"
    /\ Route(url_path[h]) = "mavlink_page"
    /\ LET final_result == pointer(MESSAGES, url_path[h])
       IN response' = [response EXCEPT
              ![h] = IF final_result = None THEN NoValidPath
                     ELSE Json(final_result, pretty[h])]
    /\ overtaken' = [overtaken EXCEPT ![h] = Overtaken(message[h])]
    /\ message' = [message EXCEPT ![h] = Null]
    /\ h_pc' = [h_pc EXCEPT ![h] = "done"]
    /\ UNCHANGED <<url_path, pretty>>
    /\ UNCHANGED <<MESSAGES, lock, poisoned, now, ingest_vars, hb_vars>>

\* mavlink_page, after its clone: pointer, then the not-found text or the
\* serialized value
mavlink_page(h) ==
    /\ h_pc[h] = "cloned"
    /\ Route(url_path[h]) = "mavlink_page"
    /\ LET final_result == pointer(message[h], url_path[h])
       IN response' = [response EXCEPT
              ![h] = IF final_result = None THEN NoValidPath
                     ELSE Json(final_result, pretty[h])]
    /\ overtaken' = [overtaken EXCEPT ![h] = Overtaken(message[h])]
    /\ message' = [message EXCEPT ![h] = Null]
    /\ h_pc' = [h_pc EXCEPT ![h] = "done"]
    /\ UNCHANGED <<url_path, pretty>>
    /\ UNCHANGED <<MESSAGES, lock, poisoned, now, ingest_vars, hb_vars>>

----------------------------------------------------------------------------
(* The whole program: both threads, the clock and every handler *)

Keepalive ==
    \/ \E ok \in BOOLEAN : HeartbeatSend(ok)
    \/ HeartbeatWake

\* a message is received and put into the store
Put ==
    \/ \E msg \in Payloads : RecvOk(msg)
    \/ IngestLock
    \/ IngestAssign
    \/ IngestUpdate
    \/ IngestMirror

Ingestion ==
    \/ Put
    \/ RecvWouldBlock
    \/ IngestWake
    \/ RecvError

Serve(h) ==
    \/ HandlerLock(h)
    \/ HandlerClone(h)
    \/ root_page(h)
    \/ mavlink_page(h)

Next ==
    \/ Tick
    \/ Keepalive
    \/ Ingestion
    \/ \E h \in Handlers, p \in Paths, indented \in BOOLEAN : Request(h, p, indented)
    \/ \E h \in Handlers, p \in Paths, indented \in BOOLEAN : DefaultService(h, p, indented)
    \/ \E h \in Handlers : Serve(h)

Spec == Init /\ [][Next]_vars

----------------------------------------------------------------------------
(* The two threads and the clock, with no request *)

NextLoops ==
    \/ Tick
    \/ Keepalive
    \/ Ingestion

SpecLoops == Init /\ [][NextLoops]_vars

----------------------------------------------------------------------------
(* One handler asked every path, while the clock runs and the link       *)
(* delivers messages or fails for good                                     *)

NextQuery ==
    \/ Tick
    \/ Put
    \/ RecvError
    \/ \E p \in Paths, indented \in BOOLEAN : Request(1, p, indented)
    \/ \E p \in Paths, indented \in BOOLEAN : DefaultService(1, p, indented)
    \/ Serve(1)

SpecQuery == Init /\ [][NextQuery]_vars

----------------------------------------------------------------------------
(* Every handler, each asked for the index page or for the mapping of all  *)
(* types, while the link delivers messages or fails for good; the clock    *)
(* stands still                                                            *)

HotPaths == { <<"/">>, <<"/", "mavlink">> }

NextConcurrent ==
    \/ Put
    \/ RecvError
    \/ \E h \in Handlers, p \in HotPaths : Request(h, p, FALSE)
    \/ \E h \in Handlers : Serve(h)

SpecConcurrent == Init /\ [][NextConcurrent]_vars

----------------------------------------------------------------------------
(* Both threads, the clock and one handler, asked for the index page, for  *)
(* a stored type or for a type the store does not hold; the link delivers  *)
(* one kind of message                                                     *)

ServicePaths ==
    { <<"/">>, <<"/", "mavlink", "/", "HEARTBEAT">>, <<"/", "mavlink", "/", "UNKNOWN">> }

ServicePayloads == {v \in Payloads : "custom_mode" \in DOMAIN v.o}

NextService ==
    \/ Tick
    \/ Keepalive
    \/ \E msg \in ServicePayloads : RecvOk(msg)
    \/ IngestLock
    \/ IngestAssign
    \/ IngestUpdate
    \/ IngestMirror
    \/ RecvWouldBlock
    \/ IngestWake
    \/ RecvError
    \/ \E p \in ServicePaths : Request(1, p, FALSE)
    \/ Serve(1)

SpecService == Init /\ [][NextService]_vars

----------------------------------------------------------------------------
(* Every handler and the ingestion thread, contending for the Mutex: the   *)
(* odd handlers are asked for the index page, the even ones for the        *)
(* mapping of all types; the clock stands still, so a backoff sleep does   *)
(* not end. Each thread is                                                 *)
(* scheduled: a step it can take for good, it takes (WF). The Mutex is     *)
(* handed out fairly: a handler that finds it free again and again gets it *)
(* (SF).                                                                   *)

FairPath(h) == IF h % 2 = 1 THEN <<"/">> ELSE <<"/", "mavlink">>

NextFair ==
    \/ \E msg \in ServicePayloads : RecvOk(msg)
    \/ IngestLock
    \/ IngestAssign
    \/ IngestUpdate
    \/ IngestMirror
    \/ RecvWouldBlock
    \/ RecvError
    \/ \E h \in Handlers : Request(h, FairPath(h), FALSE)
    \/ \E h \in Handlers : Serve(h)

\* the ingestion thread's steps with the Mutex held
CriticalSection ==
    \/ IngestAssign
    \/ IngestUpdate
    \/ IngestMirror

\* a handler's steps once it holds the Mutex
AfterLock(h) ==
    \/ HandlerClone(h)
    \/ root_page(h)
    \/ mavlink_page(h)

Fairness ==
    /\ WF_vars(CriticalSection)
    /\ \A h \in Handlers : SF_vars(HandlerLock(h)) /\ WF_vars(AfterLock(h))

SpecFair == Init /\ [][NextFair]_vars /\ Fairness

----------------------------------------------------------------------------
(* Properties *)

\* a handler takes its clone in this step
Clones(h) == h_pc[h] # "cloned" /\ h_pc'[h] = "cloned"

\* the types a tree holds under "mavlink"
TypesOf(tree) ==
    IF Index(tree, "mavlink").t = "obj" THEN DOMAIN Index(tree, "mavlink").o ELSE {}

\* C1: no torn reads. Every entry of every clone a handler holds is,
\* payload and message_information together, what one finished put left:
\* never the payload of a put with the block of another, never a payload
\* with no block.
C1_NoTornReads ==
    \A h \in Handlers :
        h_pc[h] = "cloned" =>
            /\ Index(message[h], "mavlink").t = "obj"
            /\ \A T \in TypesOf(message[h]) :
                   [type |-> T, entry |-> EntryOf(message[h], T)] \in committed

\* a handler holds a clone with the first HEARTBEAT put while the second
\* HEARTBEAT put, of another payload, has its payload in the store and no
\* block yet, and another handler waits for the Mutex
C1_Witness ==
    \E h, g \in Handlers :
        /\ h_pc[h] = "cloned"
        /\ h_pc[g] = "lock"
        /\ "HEARTBEAT" \in TypesOf(message[h])
        /\ ing_pc = "mirror"
        /\ MsgType(value) = "HEARTBEAT"
        /\ "HEARTBEAT" \in DOMAIN last_put
        /\ \E f \in DOMAIN value.o : f \notin DOMAIN last_put["HEARTBEAT"].o
        /\ "message_information" \notin DOMAIN EntryOfStore("HEARTBEAT").o

\* the payload of the latest finished put of T: its entry less the block
LastPayloadFields(T) == DOMAIN last_put[T].o \ {"message_information"}

\* C2: last write wins. A clone taken after puts P1 and P2 of type T shows
\* for T exactly the fields of P2, with P2's values, plus the
\* message_information block; a field only P1 had is absent.
C2_LastWriteWins ==
    [][\A h \in Handlers :
          Clones(h) =>
              \A T \in DOMAIN last_put :
                  LET e == EntryOf(message'[h], T)
                  IN /\ e.t = "obj"
                     /\ DOMAIN e.o = LastPayloadFields(T) \cup {"message_information"}
                     /\ \A f \in LastPayloadFields(T) : e.o[f] = last_put[T].o[f]]_vars

\* a handler holds a clone taken after two HEARTBEAT puts, the first with
\* custom_mode, the second without: the clone has no custom_mode
C2_Witness ==
    \E h \in Handlers :
        /\ h_pc[h] = "cloned"
        /\ \E c \in committed :
               c.type = "HEARTBEAT" /\ "custom_mode" \in DOMAIN c.entry.o
        /\ "HEARTBEAT" \in TypesOf(message[h])
        /\ "custom_mode" \notin DOMAIN EntryOf(message[h], "HEARTBEAT").o
        /\ "system_status" \in DOMAIN EntryOf(message[h], "HEARTBEAT").o
        /\ EntryOf(message[h], "HEARTBEAT").o["message_information"].o["counter"] = Num(2)

----------------------------------------------------------------------------
(* What a path addresses in a tree, by the segments between its slashes *)

\* a handler answers from its clone in this step
Responds(h) == h_pc[h] = "cloned" /\ h_pc'[h] = "done"

\* the segments of a path: what follows each "/"
Segs(p) == [i \in 1..((Len(p) + 1) \div 2) |-> IF 2 * i <= Len(p) THEN p[2 * i] ELSE ""]

IsContainer(v) == v.t \in {"obj", "arr"}

Digit == "0" :> 0 @@ "1" :> 1 @@ "2" :> 2

HasChild(v, seg) ==
    \/ v.t = "obj" /\ seg \in DOMAIN v.o
    \/ v.t = "arr" /\ seg \in DOMAIN Digit /\ Digit[seg] < Len(v.a)

Child(v, seg) == IF v.t = "obj" THEN v.o[seg] ELSE v.a[Digit[seg] + 1]

\* the value the first n segments lead to, when every one of them is there
RECURSIVE Reached(_, _, _)
Reached(v, segs, n) ==
    IF n = 0 THEN v ELSE Child(Reached(v, segs, n - 1), segs[n])

\* every one of the first n segments is there
RECURSIVE Present(_, _, _)
Present(v, segs, n) ==
    IF n = 0 THEN TRUE
    ELSE /\ Present(v, segs, n - 1)
         /\ IsContainer(Reached(v, segs, n - 1))
         /\ HasChild(Reached(v, segs, n - 1), segs[n])

\* some segment is absent from the container reached so far, or the value
\* reached so far is no container
Absent(v, segs) ==
    \E n \in 1..Len(segs) :
        /\ Present(v, segs, n - 1)
        /\ ~ (IsContainer(Reached(v, segs, n - 1))
              /\ HasChild(Reached(v, segs, n - 1), segs[n]))

\* the stored frequency of type T in a tree
FrequencyOf(tree, T) == EntryOf(tree, T).o["message_information"].o["frequency"]

\* hz is the hundredths nearest to the fraction r
NearestHundredths(hz, r) ==
    LET d == 100 * r.p - hz * r.q
    IN 2 * (IF d < 0 THEN 0 - d ELSE d) <= r.q

\* C3, as stated: "/" answers the whole tree of its clone
C3_RootReturnsTree ==
    [][\A h \in Handlers :
          (Responds(h) /\ url_path[h] = <<"/">>) =>
              response'[h] = Json(message[h], pretty[h])]_vars

\* C3, amended: "/" answers an HTML index, not the tree: one item for each
\* type of the clone and no other, with that type's frequency to the
\* nearest hundredth; the store is left as it is.
C3_RootListsTypes ==
    [][\A h \in Handlers :
          (Responds(h) /\ url_path[h] = <<"/">>) =>
              /\ response'[h].kind = "html"
              /\ {i.key : i \in response'[h].list} = TypesOf(message[h])
              /\ Cardinality(response'[h].list) = Cardinality(TypesOf(message[h]))
              /\ \A i \in response'[h].list :
                     NearestHundredths(i.hz, FrequencyOf(message[h], i.key))
              /\ MESSAGES' = MESSAGES]_vars

\* "/" was answered with an index that lists HEARTBEAT at 0.50 Hz
C3_Witness ==
    \E h \in Handlers :
        /\ h_pc[h] = "done"
        /\ url_path[h] = <<"/">>
        /\ response[h].kind = "html"
        /\ [key |-> "HEARTBEAT", hz |-> 50] \in response[h].list

\* C4: path resolution. mavlink_page answers "No valid path" exactly when a
\* segment of the path is absent from the container reached so far or the
\* value reached so far is no container; otherwise it answers the value the
\* segments lead to in its clone. /mavlink is the mapping of all types,
\* /mavlink/<TYPE> the entry of that type with its message_information,
\* /mavlink/UNKNOWN is not found.
C4_PathResolution ==
    [][\A h \in Handlers :
          (Responds(h) /\ Route(url_path[h]) = "mavlink_page") =>
              LET segs == Segs(url_path[h])
                  tree == message[h]
              IN /\ (response'[h] = NoValidPath) <=> Absent(tree, segs)
                 /\ ~ Absent(tree, segs) =>
                        response'[h] = Json(Reached(tree, segs, Len(segs)), pretty[h])
                 /\ url_path[h] = <<"/", "mavlink">> =>
                        /\ response'[h].kind = "json"
                        /\ response'[h].value = Index(tree, "mavlink")
                        /\ DOMAIN response'[h].value.o = TypesOf(tree)
                 /\ \A T \in TypesOf(tree) :
                        url_path[h] = <<"/", "mavlink", "/", T>> =>
                            /\ response'[h].kind = "json"
                            /\ response'[h].value = EntryOf(tree, T)
                            /\ "message_information" \in DOMAIN response'[h].value.o
                 /\ url_path[h] = <<"/", "mavlink", "/", "UNKNOWN">> =>
                        response'[h] = NoValidPath]_vars

\* an element of an array was answered, and so was a nested field
C4_Witness ==
    \E h \in Handlers :
        /\ h_pc[h] = "done"
        /\ \/ /\ url_path[h] = <<"/", "mavlink", "/", "ATTITUDE", "/", "q", "/", "1">>
              /\ response[h] = Json(Num(0), pretty[h])
           \/ /\ url_path[h] = <<"/", "mavlink", "/", "HEARTBEAT", "/", "mavtype", "/", "type">>
              /\ response[h] = Json(Str("MAV_TYPE_GENERIC"), pretty[h])
        /\ "ATTITUDE" \in DOMAIN last_put
        /\ "HEARTBEAT" \in DOMAIN last_put

\* a request is answered in this step, by a handler or by the server itself
Answers(h) == h_pc[h] # "done" /\ h_pc'[h] = "done"

\* the tree a request answered in this step is answered from
TreeFor(h) == IF h_pc[h] = "cloned" THEN message[h] ELSE MESSAGES

\* C5, as stated: every request for a path that addresses nothing is
\* answered "No valid path"
C5_UnknownPathNoValidPath ==
    [][\A h \in Handlers :
          (Answers(h) /\ url_path'[h] # <<"/">>
                      /\ Absent(TreeFor(h), Segs(url_path'[h]))) =>
              response'[h] = NoValidPath]_vars

\* C5, amended: a request that mavlink_page handles (a path under /mavlink)
\* and that addresses nothing is answered "No valid path", with or without
\* pretty; a request no route matches is answered by the server's own 404;
\* no request is answered by a panic. In every reachable state, a put in
\* progress or the ingestion thread stopped included.
C5_UnknownPathUnderMavlink ==
    [][\A h \in Handlers :
          Answers(h) =>
              /\ response'[h] # Panicked
              /\ (Route(url_path'[h]) = "mavlink_page"
                    /\ Absent(TreeFor(h), Segs(url_path'[h]))) =>
                     response'[h] = NoValidPath
              /\ Route(url_path'[h]) = "default" => response'[h] = NotFound404]_vars

\* with the ingestion thread stopped and HEARTBEAT in the store, a pretty
\* request for a field of a number was answered "No valid path"
C5_Witness ==
    \E h \in Handlers :
        /\ h_pc[h] = "done"
        /\ ing_pc = "stopped"
        /\ pretty[h]
        /\ url_path[h] = <<"/", "mavlink", "/", "HEARTBEAT", "/", "custom_mode", "/", "x">>
        /\ "HEARTBEAT" \in DOMAIN last_put
        /\ "custom_mode" \in DOMAIN last_put["HEARTBEAT"].o
        /\ response[h] = NoValidPath

\* C6: visibility after put. A clone whose lock acquisition follows the end
\* of a put shows, for every type put so far, the whole entry (payload and
\* message_information) its latest finished put left.
C6_VisibleAfterPut ==
    [][\A h \in Handlers :
          Clones(h) =>
              \A T \in DOMAIN last_put : EntryOf(message'[h], T) = last_put[T]]_vars

\* a handler holds a clone taken after two puts of HEARTBEAT: it shows the
\* second
C6_Witness ==
    \E h \in Handlers :
        /\ h_pc[h] = "cloned"
        /\ lock = Free
        /\ TypesOf(message[h]) = {"HEARTBEAT"}
        /\ EntryOf(message[h], "HEARTBEAT").o["message_information"].o["counter"] = Num(2)
        /\ EntryOf(message[h], "HEARTBEAT") = last_put["HEARTBEAT"]

\* what a handler answers from a tree
Answer(tree, p, indented) ==
    IF p = <<"/">> THEN Html(RootList(tree))
    ELSE IF Absent(tree, Segs(p)) THEN NoValidPath
    ELSE Json(Reached(tree, Segs(p), Len(Segs(p))), indented)

\* C7: snapshot independence. A clone a handler holds is changed by no step
\* of another thread or handler, and the handler answers what its path
\* addresses in the clone, also when a put has finished since the clone was
\* taken.
C7_SnapshotIndependence ==
    [][\A h \in Handlers :
          /\ (h_pc[h] = "cloned" /\ h_pc'[h] = "cloned") => message'[h] = message[h]
          /\ (Responds(h) /\ Overtaken(message[h])) =>
                 response'[h] = Answer(message[h], url_path[h], pretty[h])]_vars

\* a handler answered /mavlink after a put had finished that its clone did
\* not show, and its answer is not what the store held when it answered
C7_Witness ==
    \E h \in Handlers :
        /\ h_pc[h] = "done"
        /\ overtaken[h]
        /\ url_path[h] = <<"/", "mavlink">>
        /\ response[h].kind = "json"
        /\ DOMAIN response[h].value.o = {}
        /\ DOMAIN last_put # {}

\* C8: terminal halt. A receive failure other than WouldBlock stops the
\* ingestion thread at that poll, with no put; from then on the thread stays
\* stopped, the store and the side table never change, and every clone a
\* handler takes is the store as it was left.
C8_TerminalHalt ==
    [][/\ (last_recv # "error" /\ last_recv' = "error") =>
              /\ ing_pc' = "stopped"
              /\ lock' = lock
              /\ MESSAGES' = MESSAGES
              /\ messages_information' = messages_information
              /\ committed' = committed
       /\ last_recv = "error" =>
              /\ ing_pc' = "stopped"
              /\ last_recv' = "error"
              /\ MESSAGES' = MESSAGES
              /\ messages_information' = messages_information
              /\ committed' = committed
              /\ \A h \in Handlers : Clones(h) => message'[h] = MESSAGES]_vars

\* the ingestion thread stopped after one put, with another message still
\* to come, and a request for HEARTBEAT was answered with that put's entry
C8_Witness ==
    \E h \in Handlers :
        /\ ing_pc = "stopped"
        /\ last_recv = "error"
        /\ nrecv < MaxRecv
        /\ "HEARTBEAT" \in DOMAIN last_put
        /\ h_pc[h] = "done"
        /\ url_path[h] = <<"/", "mavlink", "/", "HEARTBEAT">>
        /\ response[h] = Json(last_put["HEARTBEAT"], pretty[h])
        /\ EntryOfStore("HEARTBEAT") = last_put["HEARTBEAT"]

\* the entry a put of the received value leaves in the store
PutEntry ==
    Obj(("message_information" :>
             InformationValue(messages_information[MsgType(value)])) @@ value.o)

\* C9: idle tolerance. A poll that returns WouldBlock leaves the store and
\* the side table as they are and puts the ingestion thread to sleep, not to
\* a stop; the sleep ends in the next poll; and a message received after any
\* number of such polls is put into the store whole.
C9_IdleTolerance ==
    [][/\ (ing_pc = "recv" /\ ing_pc' # "recv" /\ last_recv' = "wouldblock") =>
              /\ ing_pc' = "sleep"
              /\ MESSAGES' = MESSAGES
              /\ messages_information' = messages_information
       /\ ing_pc = "sleep" =>
              /\ ing_pc' \in {"sleep", "recv"}
              /\ MESSAGES' = MESSAGES
              /\ messages_information' = messages_information
       /\ (ing_pc = "mirror" /\ ing_pc' # "mirror") =>
              /\ ing_pc' = "recv"
              /\ EntryOf(MESSAGES', MsgType(value)) = PutEntry]_vars

\* after two WouldBlock polls in a row a HEARTBEAT was received and put
C9_Witness ==
    /\ idle_polls >= 2
    /\ last_recv = "ok"
    /\ ing_pc = "recv"
    /\ MsgType(value) = "HEARTBEAT"
    /\ EntryOfStore("HEARTBEAT") = PutEntry
    /\ messages_information["HEARTBEAT"].counter = 1

\* C10: the send after a failed send comes a full interval after it
C10_RetryAfterInterval ==
    (hb_last.sent /\ hb_prev.sent /\ ~ hb_prev.ok) =>
        hb_last.at >= hb_prev.at + HeartbeatSleep

----------------------------------------------------------------------------
\* the heartbeat thread can take its next step, once its sleep is over
KeepaliveRuns ==
    /\ hb_pc \in {"send", "sleep"}
    /\ hb_pc = "send" => ENABLED (\E ok \in BOOLEAN : HeartbeatSend(ok))
    /\ (hb_pc = "sleep" /\ now >= hb_wake) => ENABLED HeartbeatWake

\* a handler with a request in hand can take its next step, or the handler
\* holding the Mutex can
HandlerRuns(h) ==
    h_pc[h] \in {"lock", "clone", "cloned"} =>
        \/ ENABLED Serve(h)
        \/ \E g \in Handlers : lock = HeldBy(g) /\ ENABLED HandlerClone(g)

\* C11: failure containment. A failed send_default leaves the heartbeat
\* thread at its next send; the step that stops the ingestion thread changes
\* nothing of the heartbeat thread, the handlers, the store or the Mutex;
\* and with the ingestion thread stopped the heartbeat thread still has its
\* next step and every handler with a request still has its own.
C11_FailureContainment ==
    /\ [][/\ (hb_pc = "send" /\ hb_last' # hb_last /\ ~hb_last'.ok) => hb_pc' = "send"
          /\ (ing_pc # "stopped" /\ ing_pc' = "stopped") =>
                 UNCHANGED <<hb_vars, handler_vars, MESSAGES, lock, poisoned>>]_vars
    /\ [](KeepaliveRuns)
    /\ [](ing_pc = "stopped" => (lock # HeldByIngest /\ \A h \in Handlers : HandlerRuns(h)))

\* the ingestion thread has stopped with a message in the store, the latest
\* heartbeat send failed after an earlier one, the heartbeat thread is at its
\* next send, and a handler waits for the Mutex
C11_Witness ==
    /\ ing_pc = "stopped"
    /\ DOMAIN last_put # {}
    /\ hb_prev.sent /\ hb_last.sent /\ ~hb_last.ok
    /\ hb_pc = "send"
    /\ \E h \in Handlers : h_pc[h] = "lock"

----------------------------------------------------------------------------
\* C12: sole writer. Every step that changes the store is a step of the
\* ingestion thread's put, taken with the Mutex held by that thread; a step
\* of the heartbeat thread or of a handler (index page, path found, path not
\* found) leaves the store as it was.
C12_SoleWriter ==
    [][/\ MESSAGES' # MESSAGES =>
             /\ ing_pc \in {"assign", "mirror"}
             /\ ing_pc' # ing_pc
             /\ lock = HeldByIngest
       /\ (hb_vars' # hb_vars \/ handler_vars' # handler_vars) =>
             MESSAGES' = MESSAGES]_vars

\* with a HEARTBEAT in the store the heartbeat thread has sent and a handler
\* has answered "No valid path"
C12_Witness ==
    /\ "HEARTBEAT" \in TypesOf(MESSAGES)
    /\ lock = Free
    /\ hb_last.sent
    /\ \E h \in Handlers : h_pc[h] = "done" /\ response[h] = NoValidPath

----------------------------------------------------------------------------
\* the types of the messages put so far: those of the finished puts and that
\* of the put whose payload is already assigned
TypesPut ==
    {c.type : c \in committed}
        \cup (IF ing_pc \in {"update", "mirror"} THEN {MsgType(value)} ELSE {})

\* C13: entries only accumulate. The store starts with no type under
\* "mavlink"; no step removes a type; what is under "mavlink" is one
\* mapping, so a type has one entry; and in every state the types under
\* "mavlink" are exactly the types of the messages put so far.
C13_EntriesAccumulate ==
    /\ TypesOf(MESSAGES) = {}
    /\ [][TypesOf(MESSAGES) \subseteq TypesOf(MESSAGES')]_vars
    /\ [](/\ Index(MESSAGES, "mavlink").t = "obj"
          /\ TypesOf(MESSAGES) = TypesPut)

\* after a finished HEARTBEAT put, an ATTITUDE put has its payload assigned:
\* the store holds both types
C13_Witness ==
    /\ ing_pc = "mirror"
    /\ MsgType(value) = "ATTITUDE"
    /\ {c.type : c \in committed} = {"HEARTBEAT"}
    /\ TypesOf(MESSAGES) = {"HEARTBEAT", "ATTITUDE"}

----------------------------------------------------------------------------
\* the put in hand runs update() in this step
UpdatesBlock == ing_pc = "update" /\ ing_pc' = "mirror"

\* the put in hand writes its block into the store, and ends, in this step
MirrorsBlock == ing_pc = "mirror" /\ ing_pc' = "recv"

\* the put in hand is the first of its type
FirstPut == MsgType(value) \notin DOMAIN arrivals

\* the put in hand is the second of its type, later than the first
SecondPutLater ==
    /\ MsgType(value) \in DOMAIN arrivals
    /\ arrivals[MsgType(value)].n = 1
    /\ now > arrivals[MsgType(value)].at

----------------------------------------------------------------------------
\* the arrival count the store shows for type T
CounterOf(tree, T) == EntryOf(tree, T).o["message_information"].o["counter"]

\* C15: frequency state carried forward. The side table has a block for
\* exactly the types update() has run for; no step removes a block or lowers
\* its arrival count, and the step that replaces a payload leaves every block
\* as it was; the count of a block is the number of update() calls for its
\* type, one per put; and whenever the ingestion thread does not hold the
\* Mutex the store shows, for every type, the number of its finished puts.
C15_FrequencyStateCarried ==
    /\ [][/\ \A T \in DOMAIN messages_information :
                 /\ T \in DOMAIN messages_information'
                 /\ messages_information'[T].counter >= messages_information[T].counter
           /\ (ing_pc = "assign" /\ ing_pc' = "update") => UNCHANGED messages_information]_vars
    /\ [](/\ DOMAIN messages_information = DOMAIN arrivals
          /\ \A T \in DOMAIN arrivals :
                 /\ messages_information[T].counter = arrivals[T].n
                 /\ lock # HeldByIngest => CounterOf(MESSAGES, T) = Num(arrivals[T].n))

\* two HEARTBEAT puts with different payloads are finished: the store shows
\* the fields of the later payload and an arrival count of 2
C15_Witness ==
    /\ lock = Free
    /\ ing_pc = "recv"
    /\ "HEARTBEAT" \in DOMAIN arrivals
    /\ CounterOf(MESSAGES, "HEARTBEAT") = Num(2)
    /\ \E c \in committed :
           /\ c.type = "HEARTBEAT"
           /\ DOMAIN c.entry.o # DOMAIN EntryOfStore("HEARTBEAT").o

----------------------------------------------------------------------------
\* C16: mirror invariant. Whenever the Mutex is free, the side table has a
\* block for exactly the types in the store, and the block embedded in the
\* store entry of each type is the serialized block of the side table.
C16_MirrorInvariant ==
    lock = Free =>
        /\ DOMAIN messages_information = TypesOf(MESSAGES)
        /\ \A T \in TypesOf(MESSAGES) :
               Index(EntryOfStore(T), "message_information")
                   = InformationValue(messages_information[T])

\* the Mutex is free, both types are stored, a block carries an arrival
\* time after 0 and the ingestion thread sleeps
C16_Witness ==
    /\ lock = Free
    /\ ing_pc = "sleep"
    /\ TypesOf(MESSAGES) = {"HEARTBEAT", "ATTITUDE"}
    /\ now > 0
    /\ \E T \in DOMAIN messages_information :
           messages_information[T].previous_timestamp > 0

----------------------------------------------------------------------------
\* the side-table block of type U, or None
BlockOf(table, U) == IF U \in DOMAIN table THEN table[U] ELSE None

\* C17: per-type frame. A step changes the store entry or the side-table
\* block of a type U only if it is a step of a put of a message of type U:
\* a put for T leaves payload and block of every other type as they were.
C17_PerTypeFrame ==
    [][\A U \in TypeNames :
          (\/ EntryOf(MESSAGES', U) # EntryOf(MESSAGES, U)
           \/ BlockOf(messages_information', U) # BlockOf(messages_information, U))
              => /\ ing_pc \in {"assign", "update", "mirror"}
                 /\ U = MsgType(value)]_vars

\* a HEARTBEAT put, then a later ATTITUDE put, are finished: the store still
\* holds the HEARTBEAT entry as its put left it
C17_Witness ==
    /\ lock = Free
    /\ DOMAIN arrivals = {"HEARTBEAT", "ATTITUDE"}
    /\ arrivals["ATTITUDE"].at > arrivals["HEARTBEAT"].at
    /\ "ATTITUDE" \in DOMAIN last_put
    /\ EntryOfStore("HEARTBEAT") = last_put["HEARTBEAT"]
    /\ BlockOf(messages_information, "HEARTBEAT").previous_timestamp
           = arrivals["HEARTBEAT"].at

----------------------------------------------------------------------------
\* C18: lock scope. The ingestion thread holds the Mutex exactly from its
\* lock() after a successful receive to the end of that put: not while it
\* waits in recv, sleeps after WouldBlock, waits for the Mutex or has
\* stopped. A handler holds the Mutex only while it makes its clone: not
\* once the clone is made, nor while it answers.
C18_LockScope ==
    /\ lock = HeldByIngest <=> ing_pc \in {"assign", "update", "mirror"}
    /\ ing_pc \in {"recv", "sleep", "stopped", "lock"} => lock # HeldByIngest
    /\ \A h \in Handlers :
           /\ lock = HeldBy(h) <=> h_pc[h] = "clone"
           /\ h_pc[h] \in {"cloned", "done"} => lock # HeldBy(h)

\* the ingestion thread sleeps after a put and a WouldBlock while a handler
\* holds the Mutex for its clone
C18_Witness ==
    /\ ing_pc = "sleep"
    /\ DOMAIN last_put # {}
    /\ \E h \in Handlers : lock = HeldBy(h) /\ h_pc[h] = "clone"

----------------------------------------------------------------------------
\* C19: no deadlock, no starvation. Under the fair scheduling of SpecFair,
\* every handler that waits for the Mutex eventually holds its clone and
\* eventually has answered, with the index page or with what its path
\* resolves to, whatever the ingestion thread does meanwhile and with every
\* other handler contending.
C19_NoStarvation ==
    \A h \in Handlers :
        (h_pc[h] = "lock") ~>
            (h_pc[h] = "done" /\ response[h] \notin {NoResponse, Panicked})

\* every handler waits for the Mutex while the ingestion thread holds it in
\* the middle of a put
C19_Witness ==
    /\ \A h \in Handlers : h_pc[h] = "lock"
    /\ lock = HeldByIngest
    /\ ing_pc = "update"

----------------------------------------------------------------------------
\* the tree is a mapping with the one key "mavlink", whose value is a
\* mapping, each entry of which is a mapping with a "message_information"
\* block
Shape(tree) ==
    /\ tree.t = "obj"
    /\ DOMAIN tree.o = {"mavlink"}
    /\ tree.o["mavlink"].t = "obj"
    /\ \A T \in DOMAIN tree.o["mavlink"].o :
           /\ tree.o["mavlink"].o[T].t = "obj"
           /\ Index(tree.o["mavlink"].o[T], "message_information").t = "obj"

\* C20: store shape. Whenever the ingestion thread does not hold the Mutex,
\* the store has the shape above, and so has every clone a handler holds;
\* hence as_object().unwrap() in root_page never fails and no handler
\* answers with a panic.
C20_StoreShape ==
    /\ lock # HeldByIngest => Shape(MESSAGES)
    /\ \A h \in Handlers :
           /\ h_pc[h] = "cloned" =>
                  (Shape(message[h]) /\ ~RootUnwrapFails(message[h]))
           /\ response[h] # Panicked

\* a handler has listed both types on the index page while another holds a
\* clone with both types
C20_Witness ==
    \E h, g \in Handlers :
        /\ h_pc[h] = "done"
        /\ response[h].kind = "html"
        /\ {i.key : i \in response[h].list} = {"HEARTBEAT", "ATTITUDE"}
        /\ h_pc[g] = "cloned"
        /\ TypesOf(message[g]) = {"HEARTBEAT", "ATTITUDE"}
====
